---- MODULE Spec2Model ----
(***************************************************************************)
(* A model of the block-structure segmentation engine of mistune: the      *)
(* fenced-directive matcher (directives/_fenced.py), the Admonition        *)
(* directive handler (directives/admonition.py), the list parser           *)
(* (list_parser.py) and the list renderer (renderers/_list.py).            *)
(*                                                                         *)
(* Text is a sequence of one-character strings; offsets are 0-based as in  *)
(* the Python code (At, PySlice).  The tilde stands for the default fence  *)
(* marker set (backtick or tilde), the colon for a configured marker set.  *)
(***************************************************************************)
EXTENDS Integers, Sequences, FiniteSets, TLC

VARIABLES
    parser,     \* the BlockParser with the directive plugged in
    sc_rules,   \* the rules BlockParser.parse was called with for this state
    state,      \* the BlockState being parsed
    pc,         \* where the run is: "parse", "raised", "done", "rendered", ...
    rule,       \* the rule whose handler the last turn of the loop called
    mstart,     \* m.start() of the match that handler was given
    pre,        \* the state as the handler got it
    post,       \* the state as the handler left it
    ret,        \* what the handler returned
    pd,         \* the locals of _process_directive, when the handler ran it;
                \* of parse_list, the handler a line of an item was given to
    rk,         \* the index of the list token given to render_list
    out,        \* what render_list returned
    reparsed,   \* the tokens of the parse of the rendered text
    admon       \* what Admonition.parse returned

vars == <<parser, sc_rules, state, pc, rule, mstart, pre, post, ret, pd, rk, out,
          reparsed, admon>>

NL == "\n"
TAB == "\t"

(***************************************************************************)
(* Python values and string primitives                                     *)
(***************************************************************************)
NoneV == [kind |-> "None", v |-> 0]
IntV(n) == [kind |-> "int", v |-> n]
RaiseV == [kind |-> "raise", v |-> 0]

\* Python truthiness of a returned position: None and 0 are falsy
Truthy(r) == r.kind = "int" /\ r.v # 0

MinOf(S) == CHOOSE x \in S : \A y \in S : x <= y
MaxOf(S) == CHOOSE x \in S : \A y \in S : x >= y

\* s[i] for a 0-based offset, "" outside the string
At(s, i) == IF i >= 0 /\ i < Len(s) THEN s[i + 1] ELSE ""

\* an offset normalised as Python normalises a slice bound
SliceBound(s, a) ==
    IF a < 0 THEN (IF a + Len(s) < 0 THEN 0 ELSE a + Len(s))
    ELSE IF a > Len(s) THEN Len(s) ELSE a

\* s[a:b]
PySlice(s, a, b) ==
    LET lo == SliceBound(s, a)
        hi == SliceBound(s, b)
    IN IF lo >= hi THEN <<>> ELSE SubSeq(s, lo + 1, hi)

\* s[a:]
PySliceFrom(s, a) == PySlice(s, a, Len(s))

\* the position a regex search or match starts from, given pos
SearchPos(s, pos) == IF pos < 0 THEN 0 ELSE IF pos > Len(s) THEN Len(s) ELSE pos

StartsWith(s, p) == Len(p) <= Len(s) /\ SubSeq(s, 1, Len(p)) = p

\* ' ' * n: the empty string when n <= 0
Spaces(n) == [i \in 1..(IF n > 0 THEN n ELSE 0) |-> " "]

\* the length of the longest run of characters of S starting at offset i
RunTo(s, i, stop) == IF stop = {} THEN Len(s) - i ELSE MinOf(stop) - 1 - i
RunLen(s, i, S) ==
    IF i < 0 \/ i >= Len(s) THEN 0
    ELSE RunTo(s, i, {k \in (i + 1)..Len(s) : s[k] \notin S})

\* the offset of the first character of S at or after i, -1 if none
FirstHit(i, hit) == IF i < 0 \/ hit = {} THEN -1 ELSE MinOf(hit) - 1
FindFrom(s, i, S) == FirstHit(i, {k \in (i + 1)..Len(s) : s[k] \in S})

\* the offset of the last character of S at or after i, -1 if none
LastHit(i, hit) == IF i < 0 \/ hit = {} THEN -1 ELSE MaxOf(hit) - 1
FindLast(s, i, S) == LastHit(i, {k \in (i + 1)..Len(s) : s[k] \in S})

\* '^' and '$' under re.M
LineStart(s, i) == i = 0 \/ At(s, i - 1) = NL
LineEnd(s, i) == i = Len(s) \/ At(s, i) = NL

\* the offset of the end of the line that holds offset i (its newline, or len)
EolAt(s, e) == IF e = -1 THEN Len(s) ELSE e
EolFrom(s, i) == EolAt(s, FindFrom(s, i, {NL}))

Lower == {"a", "b", "c", "d", "e", "f", "g", "h", "i", "j", "k", "l", "m",
          "n", "o", "p", "q", "r", "s", "t", "u", "v", "w", "x", "y", "z"}
Upper == {"A", "B", "C", "D", "E", "F", "G", "H", "I", "J", "K", "L", "M",
          "N", "O", "P", "Q", "R", "S", "T", "U", "V", "W", "X", "Y", "Z"}
Digit == {"0", "1", "2", "3", "4", "5", "6", "7", "8", "9"}
\* [a-zA-Z0-9_-]
Ident == Lower \cup Upper \cup Digit \cup {"_", "-"}
\* [ \t]
Blank == {" ", TAB}
\* \s
White == {" ", TAB, NL}

\* str.strip()
Strip(s) ==
    LET a == RunLen(s, 0, White)
        black == {k \in 1..Len(s) : s[k] \notin White}
    IN IF black = {} THEN <<>> ELSE SubSeq(s, a + 1, MaxOf(black))

(***************************************************************************)
(* Bounds and configuration                                                *)
(***************************************************************************)
\* block.max_nested_level, a configured positive ceiling
MaxNestedLevel == 2
\* the largest number of lines of an input
MaxLines == 3

\* The rule table: the rules the sources name that the inputs of this model
\* can match, in registration order, with the directive rule registered before
\* 'fenced_code' when the directive uses its own marker set.  The other rules
\* the sources name (thematic_break, atx_heading, block_quote, block_html) need
\* characters the inputs do not hold.  Text no rule takes is a paragraph.
\* The def_list plugin, plugged in without a directive, registers its rule
\* before 'paragraph', which is after the rules of this table.
DefaultRules(markers) ==
    IF markers = "default"
    THEN <<"fenced_code", "list", "blank_line">>
    ELSE IF markers = "def_list"
    THEN <<"fenced_code", "list", "blank_line", "def_list">>
    ELSE <<"fenced_directive", "fenced_code", "list", "blank_line">>

\* the BlockParser object with a FencedDirective([Admonition()], markers) plugged
\* in, or with the def_list plugin: list_rules is the copy of the default rules
\* taken at construction, before the rule of the plugin is registered
Block(markers) ==
    [cls |-> "BlockParser", markers |-> markers,
     max_nested_level |-> MaxNestedLevel,
     rules |-> DefaultRules(markers), list_rules |-> DefaultRules("default")]

\* the characters a fence of the configured marker set is made of
MarkerChars(markers) == IF markers = "default" THEN {"~"} ELSE {":"}

\* BlockState: process(src) on a fresh state, and child_state(src)
NewState(src, depth) ==
    [cls |-> "BlockState", src |-> src, cursor |-> 0, tokens |-> <<>>,
     depth |-> depth, exc |-> FALSE]
child_state(st, src) == NewState(src, st.depth + 1)
CursorMax(st) == Len(st.src)

\* list.insert(index, x)
InsertAt(seq, index, x) ==
    SubSeq(seq, 1, index) \o <<x>> \o SubSeq(seq, index + 1, Len(seq))

\* list(rules); rules.remove(name)
Remove(rules, name) == SelectSeq(rules, LAMBDA r : r # name)
Contains(rules, name) == \E i \in 1..Len(rules) : rules[i] = name

RECURSIVE BlockParse(_, _, _)

(***************************************************************************)
(* directives/_fenced.py                                                   *)
(***************************************************************************)
NoMatch == [ok |-> FALSE, start |-> -1, end |-> -1]

\* _type_re.match(info): ^ *\{[a-zA-Z0-9_-]+\}
type_re_match(info) ==
    LET sp == RunLen(info, 0, {" "})
        n == RunLen(info, sp + 1, Ident)
    IN At(info, sp) = "{" /\ n >= 1 /\ At(info, sp + 1 + n) = "}"

\* the option lines of _directive_re from offset q:
\* (?:\:[a-zA-Z0-9_-]+\: *[^\n]*\n+)*
RECURSIVE OptionLines(_, _)
OptionLines(text, q) ==
    LET n == RunLen(text, q + 1, Ident)
        e == FindFrom(text, q + 2 + n, {NL})
    IN IF At(text, q) = ":" /\ n >= 1 /\ At(text, q + 1 + n) = ":" /\ e # -1
       THEN <<[key |-> PySlice(text, q + 1, q + 1 + n),
               value |-> Strip(PySlice(text, q + 2 + n, e))]>>
            \o OptionLines(text, e + RunLen(text, e, {NL}))
       ELSE <<>>

\* _directive_re matched at offset i of text:
\* \{(?P<type>[a-zA-Z0-9_-]+)\} *(?P<title>[^\n]*)(?:\n|$)(?P<options>...)\n*(?P<text>...)
directive_re_at(text, i) ==
    LET n == RunLen(text, i + 1, Ident)
        t0 == i + n + 2
        sp == RunLen(text, t0, {" "})
        j == EolFrom(text, t0 + sp)
        lastnl == FindLast(text, j, {NL})
    IN [ok |-> At(text, i) = "{" /\ n >= 1 /\ At(text, i + 1 + n) = "}",
        start |-> i,
        end |-> IF j >= Len(text) THEN Len(text) ELSE lastnl + 1,
        type |-> PySlice(text, i + 1, i + 1 + n),
        title |-> PySlice(text, t0 + sp, j),
        options |-> IF j >= Len(text) THEN <<>> ELSE OptionLines(text, j + 1),
        all |-> PySlice(text, i, IF j >= Len(text) THEN Len(text) ELSE lastnl + 1)]

\* _directive_re.search(text): the leftmost match anywhere in text
directive_re_first(text, hits) ==
    IF hits = {} THEN [ok |-> FALSE] ELSE directive_re_at(text, MinOf(hits))
directive_re_search(text) ==
    directive_re_first(text, {i \in 0..Len(text) : directive_re_at(text, i).ok})

\* _directive_re.match(text): a match starting at the first character
directive_re_match(text) ==
    IF directive_re_at(text, 0).ok THEN directive_re_at(text, 0) ELSE [ok |-> FALSE]

\* _end_re at offset i: ^ {0,2}c{k,}[ \t]*(?:\n|$) under re.M
end_re_at(s, c, k, i) ==
    LET sp == RunLen(s, i, {" "})
        r == RunLen(s, i + sp, {c})
        w == RunLen(s, i + sp + r, Blank)
        j == i + sp + r + w
    IN [ok |-> LineStart(s, i) /\ sp <= 2 /\ r >= k /\ LineEnd(s, j),
        start |-> i,
        end |-> IF j < Len(s) THEN j + 1 ELSE j]

\* _end_re.search(state.src, pos)
end_re_first(s, c, k, hits) ==
    IF hits = {} THEN NoMatch ELSE end_re_at(s, c, k, MinOf(hits))
end_re_search(s, c, k, pos) ==
    end_re_first(s, c, k, {i \in SearchPos(s, pos)..Len(s) : end_re_at(s, c, k, i).ok})

\* FencedParser.parse_type, parse_title, parse_content
parse_type(m) == m.type
parse_title(m) == m.title
parse_content(m) == m.all

\* DirectiveParser.parse_options: the (key, value) pairs of the option lines
parse_options(m) == m.options

\* DirectivePlugin.parse_tokens(block, text, state)
parse_tokens(block, text, st) ==
    LET rules == IF st.depth >= block.max_nested_level - 1
                    /\ Contains(block.rules, "fenced_directive")
                 THEN Remove(block.rules, "fenced_directive")
                 ELSE block.rules
    IN BlockParse(child_state(st, text), rules, block)

(***************************************************************************)
(* directives/admonition.py                                                *)
(***************************************************************************)
SUPPORTED_NAMES ==
    {<<"a", "t", "t", "e", "n", "t", "i", "o", "n">>, <<"c", "a", "u", "t", "i", "o", "n">>,
     <<"d", "a", "n", "g", "e", "r">>, <<"e", "r", "r", "o", "r">>, <<"h", "i", "n", "t">>,
     <<"i", "m", "p", "o", "r", "t", "a", "n", "t">>, <<"n", "o", "t", "e">>,
     <<"t", "i", "p">>, <<"w", "a", "r", "n", "i", "n", "g">>}

STYLE == <<"s", "t", "y", "l", "e">>

\* a Python list and a Python dict, told apart as isinstance tells them apart
PyList(x) == [py |-> "list", v |-> x]
PyDict(x) == [py |-> "dict", v |-> x]

\* dict(options): the value of the last pair with the key
HasKey(options, key) == \E i \in 1..Len(options) : options[i].key = key
Lookup(options, key) ==
    options[MaxOf({i \in 1..Len(options) : options[i].key = key})].value

\* str.lower()
LowerChar(c) ==
    IF c \in Upper
    THEN CASE c = "A" -> "a" [] c = "B" -> "b" [] c = "C" -> "c" [] c = "D" -> "d"
           [] c = "E" -> "e" [] c = "F" -> "f" [] c = "G" -> "g" [] c = "H" -> "h"
           [] c = "I" -> "i" [] c = "J" -> "j" [] c = "K" -> "k" [] c = "L" -> "l"
           [] c = "M" -> "m" [] c = "N" -> "n" [] c = "O" -> "o" [] c = "P" -> "p"
           [] c = "Q" -> "q" [] c = "R" -> "r" [] c = "S" -> "s" [] c = "T" -> "t"
           [] c = "U" -> "u" [] c = "V" -> "v" [] c = "W" -> "w" [] c = "X" -> "x"
           [] c = "Y" -> "y" [] OTHER -> "z"
    ELSE c
LowerStr(s) == [i \in 1..Len(s) |-> LowerChar(s[i])]

\* Admonition.parse: the token built from the tokens of the content
admonition_token(name, attrs, title, kids) ==
    [raised |-> kids.exc,
     token |-> [type |-> "admonition",
                attrs |-> PyList(<<[type |-> "admonition_content",
                                    children |-> kids.tokens],
                                   [type |-> "admonition_title", text |-> title]>>),
                children |-> PyDict(attrs)]]

\* Admonition.parse(block, m, state): the token it returns, and whether the
\* nested parse of the content raised
admonition_parse(block, m, st) ==
    admonition_token(
        parse_type(m),
        IF HasKey(parse_options(m), STYLE)
        THEN [name |-> parse_type(m), class |-> Lookup(parse_options(m), STYLE)]
        ELSE [name |-> parse_type(m)],
        IF parse_title(m) = <<>> THEN LowerStr(parse_type(m)) ELSE parse_title(m),
        parse_tokens(block, parse_content(m), st))

(***************************************************************************)
(* directives/_base.py and directives/_fenced.py: dispatch                 *)
(***************************************************************************)
\* BaseDirective.parse_method: state.append_token on what the handler returned
append_handled(st, r) ==
    IF r.raised
    THEN [raised |-> TRUE, st |-> st, ret |-> RaiseV]
    ELSE [raised |-> FALSE,
          st |-> [st EXCEPT !.tokens = Append(@, r.token)],
          ret |-> IntV(st.cursor)]

\* BaseDirective.parse_method(block, m, state): looks the type up, calls the
\* handler with (block, m, state) and appends its token to state.  It reads
\* state.depth() and state.tokens and block.rules: given objects of the other
\* class in these places it ends in an AttributeError.
parse_method(block, m, st) ==
    IF block.cls # "BlockParser" \/ st.cls # "BlockState"
    THEN [raised |-> TRUE, st |-> st, ret |-> RaiseV]
    ELSE IF parse_type(m) \in SUPPORTED_NAMES
    THEN append_handled(st, admonition_parse(block, m, st))
    ELSE [raised |-> FALSE,
          st |-> [st EXCEPT !.tokens =
                     Append(@, [type |-> "block_error", raw |-> m.all])],
          ret |-> IntV(st.cursor)]

\* _process_directive after parse_method: the exception, or end_pos
directive_handled(st, end_pos, locals, r) ==
    IF r.raised
    THEN [st |-> [st EXCEPT !.exc = TRUE], ret |-> RaiseV, pd |-> locals]
    ELSE [st |-> r.st, ret |-> IntV(end_pos), pd |-> locals]

\* FencedDirective._process_directive(block, marker, start, state): 0 without
\* a header; else parse_method is called with state in the place of block and
\* block in the place of state, and end_pos is returned.  pd keeps the locals.
directive_locals(marker, start, end_m, text, end_pos, m) ==
    [called |-> TRUE, marker |-> marker, start |-> start, end_m |-> end_m,
     text |-> text, end_pos |-> end_pos, header |-> m.ok]

\* _process_directive from the search of the header in text on
directive_header(block, marker, start, st, end_m, text, end_pos, m) ==
    IF ~m.ok
    THEN [st |-> st, ret |-> IntV(0),
          pd |-> directive_locals(marker, start, end_m, text, end_pos, m)]
    ELSE directive_handled(st, end_pos,
             directive_locals(marker, start, end_m, text, end_pos, m),
             parse_method(st, m, block))

\* _process_directive from the text and end_pos the closing fence gives on
directive_text(block, marker, start, st, end_m, text, end_pos) ==
    directive_header(block, marker, start, st, end_m, text, end_pos,
                     directive_re_search(text))

\* _process_directive from the search of the closing fence on
directive_closed(block, marker, start, st, cursor_start, end_m) ==
    directive_text(block, marker, start, st, end_m,
        IF end_m.ok
        THEN PySlice(st.src, cursor_start, end_m.start)
        ELSE PySliceFrom(st.src, cursor_start),
        IF end_m.ok THEN end_m.start ELSE CursorMax(st) - 1)

process_directive(block, marker, start, st) ==
    LET mlen == Len(marker)
        cursor_start == start - Len(marker)
    IN directive_closed(block, marker, start, st, cursor_start,
           end_re_search(st.src, marker[1], mlen + 1, cursor_start))

NoPd == [called |-> FALSE]

(***************************************************************************)
(* util.py and core.py                                                     *)
(***************************************************************************)
\* _expand_tab.sub over text from offset i: ^( {0,3})\t under re.M, replaced
\* by the spaces and a padding of width - len(spaces) (expand_leading_tab) or
\* of four spaces (expand_tab)
RECURSIVE ExpandFrom(_, _, _, _)
ExpandFrom(text, i, leading, width) ==
    IF i >= Len(text) THEN <<>>
    ELSE LET sp == RunLen(text, i, {" "})
         IN IF LineStart(text, i) /\ sp <= 3 /\ At(text, i + sp) = TAB
            THEN Spaces(sp) \o Spaces(IF leading THEN width - sp ELSE 4)
                 \o ExpandFrom(text, i + sp + 1, leading, width)
            ELSE <<At(text, i)>> \o ExpandFrom(text, i + 1, leading, width)

expand_leading_tab(text, width) == ExpandFrom(text, 0, TRUE, width)
expand_tab(text) == ExpandFrom(text, 0, FALSE, 4)

\* strip_end: _strip_end_re = \n\s+$ replaced by \n
strip_end(src) ==
    LET hits == {i \in 0..(Len(src) - 2) :
                    At(src, i) = NL /\ RunLen(src, i + 1, White) = Len(src) - i - 1}
    IN IF hits = {} THEN src ELSE Append(PySlice(src, 0, MinOf(hits)), NL)

\* str.split('\n') and '\n'.join
RECURSIVE SplitLines(_)
SplitLines(s) ==
    LET e == FindFrom(s, 0, {NL})
    IN IF e = -1 THEN <<s>> ELSE <<PySlice(s, 0, e)>> \o SplitLines(PySliceFrom(s, e + 1))

RECURSIVE JoinLines(_)
JoinLines(ls) ==
    IF Len(ls) = 0 THEN <<>>
    ELSE IF Len(ls) = 1 THEN ls[1]
    ELSE ls[1] \o <<NL>> \o JoinLines(Tail(ls))

\* BlockState.find_line_end: the end of _LINE_END = \n|$ searched from cursor
find_line_end(st) ==
    LET e == FindFrom(st.src, SearchPos(st.src, st.cursor), {NL})
    IN IF e = -1 THEN CursorMax(st) ELSE e + 1

\* BlockState.get_text(end_pos)
get_text(st, end_pos) == PySlice(st.src, st.cursor, end_pos)

\* BlockState.last_token is a paragraph
LastIsParagraph(st) ==
    Len(st.tokens) > 0 /\ st.tokens[Len(st.tokens)].type = "paragraph"

\* BlockState.add_paragraph(text)
add_paragraph(st, text) ==
    IF LastIsParagraph(st)
    THEN [st EXCEPT !.tokens[Len(st.tokens)].text = @ \o text]
    ELSE [st EXCEPT !.tokens = Append(@, [type |-> "paragraph", text |-> text])]

\* BlockState.append_paragraph(): the text up to the line end joins a
\* paragraph that is the last token; None otherwise
append_paragraph(st) ==
    IF LastIsParagraph(st)
    THEN [st |-> add_paragraph(st, get_text(st, find_line_end(st))),
          ret |-> IntV(find_line_end(st))]
    ELSE [st |-> st, ret |-> NoneV]

(***************************************************************************)
(* block_parser.py: the patterns of the rules, matched at offset i         *)
(***************************************************************************)
\* 'fenced_code': ^(?P<fenced_1> {0,3})(?P<fenced_2>`{3,}|~{3,})[ \t]*(?P<fenced_3>.*?)$
fenced_code_from(s, i, sp) ==
    LET c == At(s, i + sp)
        r == RunLen(s, i + sp, {c})
        w == RunLen(s, i + sp + r, Blank)
        e == EolFrom(s, i + sp + r + w)
    IN [ok |-> LineStart(s, i) /\ sp <= 3 /\ c = "~" /\ r >= 3,
        start |-> i, end |-> e,
        fenced_2 |-> PySlice(s, i + sp, i + sp + r),
        fenced_3 |-> PySlice(s, i + sp + r + w, e)]
fenced_code_at(s, i) == fenced_code_from(s, i, RunLen(s, i, {" "}))

\* FencedDirective.directive_pattern:
\* ^(?P<fenced_directive_mark>(?:markers){3,})\{[a-zA-Z0-9_-]+\}
fenced_directive_at(s, i, markers) ==
    LET r == RunLen(s, i, MarkerChars(markers))
        n == RunLen(s, i + r + 1, Ident)
    IN [ok |-> LineStart(s, i) /\ r >= 3 /\ At(s, i + r) = "{" /\ n >= 1
               /\ At(s, i + r + 1 + n) = "}",
        start |-> i, end |-> i + r + n + 2,
        fenced_directive_mark |-> PySlice(s, i, i + r)]

\* the end of 'blank_line' = (^[ \t\v\f]*\n)+ from offset i
RECURSIVE BlankEnd(_, _)
BlankEnd(s, i) ==
    LET w == RunLen(s, i, Blank)
    IN IF At(s, i + w) = NL THEN BlankEnd(s, i + w + 1) ELSE i

blank_line_at(s, i) ==
    [ok |-> LineStart(s, i) /\ BlankEnd(s, i) > i, start |-> i, end |-> BlankEnd(s, i)]

(***************************************************************************)
(* list_parser.py                                                          *)
(***************************************************************************)
\* LIST_PATTERN at offset i, its ' {0,3}' read as ' {0,w}':
\* ^(?P<list_1> {0,3})(?P<list_2>[\*\+-]|\d{1,9}[.)])(?P<list_3>[ \t]*|[ \t].+)$
list_groups(s, i, w, q, mlen, e) ==
    [ok |-> LineStart(s, i) /\ q - i <= w /\ mlen > 0
               /\ (e = q + mlen \/ At(s, q + mlen) \in Blank),
     start |-> i, end |-> e,
     list_1 |-> PySlice(s, i, q),
     list_2 |-> PySlice(s, q, q + mlen),
     list_3 |-> PySlice(s, q + mlen, e)]
\* the marker of mlen characters at offset q, after d digits
list_marker(s, i, w, q, mlen) == list_groups(s, i, w, q, mlen, EolFrom(s, q + mlen))
list_digits(s, i, w, q, d) ==
    list_marker(s, i, w, q,
        IF At(s, q) \in {"*", "+", "-"} THEN 1
        ELSE IF d >= 1 /\ d <= 9 /\ At(s, q + d) \in {".", ")"} THEN d + 1
        ELSE 0)
list_spaces(s, i, w, q) == list_digits(s, i, w, q, RunLen(s, q, Digit))
list_at(s, i, w) == list_spaces(s, i, w, i + RunLen(s, i, {" "}))

\* _get_list_bullet(c): the pattern of the markers that continue the list
get_list_bullet(c) ==
    IF c = "." THEN [digits |-> TRUE, min |-> 1, ch |-> "."]
    ELSE IF c = ")" THEN [digits |-> TRUE, min |-> 0, ch |-> ")"]
    ELSE IF c = "*" THEN [digits |-> FALSE, min |-> 0, ch |-> "+"]
    ELSE IF c = "+" THEN [digits |-> FALSE, min |-> 0, ch |-> "*"]
    ELSE [digits |-> FALSE, min |-> 0, ch |-> "_"]

\* _compile_list_item_pattern(bullet, leading_width) at offset i:
\* ^(?P<listitem_1> {0,w})(?P<listitem_2>bullet)(?P<listitem_3>[ \t]*|[ \t][^\n]+)$
list_item_groups(s, i, w, q, mlen, e) ==
    [ok |-> LineStart(s, i) /\ q - i <= w /\ mlen > 0
               /\ (e = q + mlen \/ At(s, q + mlen) \in Blank),
     start |-> i, end |-> e,
     listitem_1 |-> PySlice(s, i, q),
     listitem_2 |-> PySlice(s, q, q + mlen),
     listitem_3 |-> PySlice(s, q + mlen, e)]
\* the marker of mlen characters at offset q, after d digits
list_item_marker(s, i, w, q, mlen) ==
    list_item_groups(s, i, w, q, mlen, EolFrom(s, q + mlen))
list_item_digits(s, i, bullet, w, q, d) ==
    list_item_marker(s, i, w, q,
        IF bullet.digits
        THEN (IF d >= bullet.min /\ d <= 9 /\ At(s, q + d) = bullet.ch
              THEN d + 1 ELSE 0)
        ELSE (IF At(s, q) = bullet.ch THEN 1 ELSE 0))
list_item_spaces(s, i, bullet, w, q) ==
    list_item_digits(s, i, bullet, w, q, RunLen(s, q, Digit))
list_item_at(s, i, bullet, leading_width) ==
    list_item_spaces(s, i, bullet, IF leading_width > 3 THEN 3 ELSE leading_width,
                     i + RunLen(s, i, {" "}))

\* sc.match(state.src, state.cursor) in _parse_list_item: each alternative is
\* (?<=\n)pattern; of the alternation 'list_item' comes before 'list', and the
\* ' {0,3}' of the 'list' pattern is ' {0,leading_width}' when
\* leading_width <= 3, as is that of the 'fenced_code' pattern, which comes
\* before 'list_item'.  The other alternatives (thematic_break, atx_heading,
\* block_quote, block_html) need characters the list inputs of this model do
\* not hold.
sc_fenced_code_at(s, i, w) ==
    [fenced_code_at(s, i) EXCEPT !.ok = @ /\ RunLen(s, i, {" "}) <= w]
sc_alternatives(s, i, it, li, fc) ==
    IF At(s, i - 1) # NL THEN [ok |-> FALSE, lastgroup |-> "none", m |-> it]
    ELSE IF fc.ok THEN [ok |-> TRUE, lastgroup |-> "fenced_code", m |-> fc]
    ELSE IF it.ok THEN [ok |-> TRUE, lastgroup |-> "list_item", m |-> it]
    ELSE IF li.ok THEN [ok |-> TRUE, lastgroup |-> "list", m |-> it]
    ELSE [ok |-> FALSE, lastgroup |-> "none", m |-> it]
sc_match_at(s, i, bullet, leading_width) ==
    sc_alternatives(s, i, list_item_at(s, i, bullet, leading_width),
                    list_at(s, i, IF leading_width <= 3 THEN leading_width ELSE 3),
                    sc_fenced_code_at(s, i,
                        IF leading_width <= 3 THEN leading_width ELSE 3))
sc_match(s, cursor, bullet, leading_width) ==
    sc_match_at(s, SearchPos(s, cursor), bullet, leading_width)

\* _compile_continue_width(text, leading_width)
continue_width_of(t, leading_width, ws) ==
    LET m2 == ws < Len(t)
        space_width == IF m2 THEN (IF StartsWith(t, Spaces(6)) THEN 2 ELSE ws) ELSE 0
    IN [text |-> IF m2 THEN Append(PySliceFrom(t, space_width - 1), NL) ELSE <<" ">>,
        continue_width |-> leading_width - space_width]
continue_width_expanded(t, leading_width) ==
    continue_width_of(t, leading_width, RunLen(t, 0, White))
compile_continue_width(text, leading_width) ==
    continue_width_expanded(expand_leading_tab(expand_tab(text), 3), leading_width)

\* _clean_list_item_text(src, continue_width)
clean_list_item_text(src, continue_width) ==
    LET trim_space == Spaces(continue_width)
        lines == SplitLines(src)
    IN JoinLines([k \in 1..Len(lines) |->
                    IF StartsWith(lines[k], trim_space)
                    THEN expand_tab(PySliceFrom(lines[k], Len(trim_space)))
                    ELSE lines[k]])

\* _is_loose_list(tokens)
is_loose_list(tokens) ==
    \/ \E k \in 1..Len(tokens) : tokens[k].type = "blank_line"
    \/ Cardinality({k \in 1..Len(tokens) : tokens[k].type = "paragraph"}) > 1

\* _transform_tight_list(token)
RECURSIVE transform_tight_list(_)
transform_tight_list(token) ==
    IF ~token.tight
    THEN [token EXCEPT !.children =
            [a \in 1..Len(token.children) |->
                [token.children[a] EXCEPT !.children =
                    [b \in 1..Len(token.children[a].children) |->
                        LET tok == token.children[a].children[b]
                        IN IF tok.type = "paragraph" THEN [tok EXCEPT !.type = "block_text"]
                           ELSE IF tok.type = "list" THEN transform_tight_list(tok)
                           ELSE tok]]]]
    ELSE token

\* int(digits)
DigitVal(c) ==
    CASE c = "0" -> 0 [] c = "1" -> 1 [] c = "2" -> 2 [] c = "3" -> 3 [] c = "4" -> 4
      [] c = "5" -> 5 [] c = "6" -> 6 [] c = "7" -> 7 [] c = "8" -> 8 [] OTHER -> 9
RECURSIVE ParseInt(_)
ParseInt(ds) ==
    IF Len(ds) = 0 THEN 0
    ELSE 10 * ParseInt(SubSeq(ds, 1, Len(ds) - 1)) + DigitVal(ds[Len(ds)])

NoGroup == [ok |-> FALSE]

RECURSIVE Handler(_, _, _, _)

\* _parse_list_item, a line that matches another block rule: the handler of
\* the rule runs on the state; h is what it did.  token['_tok_index'] is the
\* length state.tokens had before, token['_end_pos'] is end_pos - 1.
item_handled(L, pos, tok_index, h) ==
    [L EXCEPT !.pos = pos, !.tokens = h.st.tokens, !.exc = h.st.exc,
              !.tok_index = tok_index,
              !.handler_ret = h.ret,
              !.end_pos = IF h.ret.kind = "int" THEN IntV(h.ret.v - 1) ELSE NoneV]

\* the while loop of _parse_list_item over the lines that follow the marker
\* line; L holds its variables (pos, src, prev_blank_line, next_group), the
\* cursor and the tokens of the state, the tight flag of the list token and
\* its '_tok_index' and '_end_pos'
RECURSIVE ItemScan(_, _, _, _, _, _, _)
ItemScan(blk, st0, text, continue_width, bullet, leading_width, L) ==
    IF L.pos >= CursorMax(st0) THEN L
    ELSE
    LET st == [st0 EXCEPT !.cursor = L.cursor]
        continue_space == Spaces(continue_width + 1)
        pos == find_line_end(st) + 1
        raw == get_text(st, pos)
        line == expand_leading_tab(raw, 4)
        m == sc_match(st.src, st.cursor, bullet, leading_width)
    IN IF At(raw, RunLen(raw, 0, Blank)) = NL
       THEN ItemScan(blk, st0, text, continue_width, bullet, leading_width,
               [L EXCEPT !.src = Append(@, NL), !.prev_blank_line = TRUE,
                         !.cursor = pos, !.pos = pos])
       ELSE IF ~StartsWith(line, continue_space)
       THEN IF L.prev_blank_line /\ text = <<>> /\ Strip(L.src) # <<>>
            THEN [L EXCEPT !.pos = pos]
            ELSE ItemScan(blk, st0, text, continue_width, bullet, leading_width,
                    [L EXCEPT !.src = @ \o line, !.prev_blank_line = FALSE,
                              !.cursor = pos, !.pos = pos])
       ELSE IF m.ok /\ m.lastgroup = "list_item"
       THEN [L EXCEPT !.tight = IF ~L.prev_blank_line THEN FALSE ELSE @,
                      !.next_group = [ok |-> TRUE, spaces |-> m.m.listitem_1,
                                      marker |-> m.m.listitem_2,
                                      text |-> m.m.listitem_3],
                      !.cursor = m.m.end, !.pos = pos]
       ELSE IF m.ok /\ m.lastgroup = "list"
       THEN [L EXCEPT !.pos = pos]
       ELSE IF m.ok
       THEN item_handled(L, pos, Len(st.tokens), Handler(m.lastgroup, blk, m.m, st))
       ELSE IF ~L.prev_blank_line
       THEN [L EXCEPT !.pos = pos]
       ELSE ItemScan(blk, st0, text, continue_width, bullet, leading_width,
               [L EXCEPT !.src = @ \o line, !.cursor = pos, !.pos = pos])

\* the end of _parse_list_item: the tight flag after the parse of the child,
\* the item appended to the children of the list token
item_parsed(st, token, L, child) ==
    [next_group |-> L.next_group,
     end_pos |-> L.end_pos, tok_index |-> L.tok_index, handler_ret |-> L.handler_ret,
     token |-> [token EXCEPT
                  !.tight = IF ~L.tight \/ is_loose_list(child.tokens)
                            THEN FALSE ELSE L.tight,
                  !.children = Append(@, [type |-> "list_item",
                                          children |-> child.tokens])],
     st |-> [st EXCEPT !.cursor = L.cursor, !.tokens = L.tokens,
                       !.exc = L.exc \/ child.exc]]

\* _parse_list_item from the end of its while loop on: the text of the item
\* is parsed as a child state with rules
item_child(block, st, token, rules, cw, L) ==
    item_parsed(st, token, L,
        BlockParse(child_state(st,
                       strip_end(cw.text
                                 \o clean_list_item_text(L.src, cw.continue_width - 1))),
                   rules, block))

\* _parse_list_item(block, bullet, groups, token, state, rules)
parse_list_item(block, bullet, groups, token, st, rules) ==
    LET leading_width == Len(groups.marker) + Len(groups.spaces)
        cw == compile_continue_width(groups.text, leading_width)
    IN item_child(block, st, token, rules, cw,
           ItemScan(block, st, cw.text, cw.continue_width, bullet, leading_width,
               [pos |-> st.cursor, cursor |-> st.cursor, src |-> <<>>,
                prev_blank_line |-> FALSE, tight |-> token.tight,
                next_group |-> NoGroup, tokens |-> st.tokens, exc |-> FALSE,
                tok_index |-> 0, handler_ret |-> NoneV, end_pos |-> NoneV]))

\* while groups: groups = _parse_list_item(...)
RECURSIVE ItemLoop(_, _, _, _, _, _)
RECURSIVE ItemNext(_, _, _, _)
ItemNext(block, bullet, rules, r) ==
    IF r.st.exc \/ ~r.next_group.ok THEN r
    ELSE ItemLoop(block, bullet, r.next_group, r.token, r.st, rules)

ItemLoop(block, bullet, groups, token, st, rules) ==
    ItemNext(block, bullet, rules,
             parse_list_item(block, bullet, groups, token, st, rules))

\* parse_list without the ceiling: the items are parsed with block.list_rules
\* at every depth
list_item_rules_unbounded(block, depth) == block.list_rules

\* parse_list: the rules the items of a list at this depth are parsed with.
\* At the ceiling 'list' is taken out of a copy of block.list_rules.
list_item_rules(block, depth) ==
    IF depth >= block.max_nested_level - 1
    THEN Remove(block.list_rules, "list")
    ELSE block.list_rules

\* the end of parse_list: _transform_tight_list and state.append_token
list_parsed(r) ==
    IF r.st.exc THEN [st |-> r.st, ret |-> RaiseV, pd |-> NoPd]
    ELSE IF Truthy(r.end_pos)
    THEN [st |-> [r.st EXCEPT !.tokens =
                     InsertAt(@, r.tok_index, transform_tight_list(r.token))],
          ret |-> r.end_pos,
          pd |-> [called |-> FALSE, deferred |-> TRUE, tok_index |-> r.tok_index,
                  handler_ret |-> r.handler_ret]]
    ELSE [st |-> [r.st EXCEPT !.tokens = Append(@, transform_tight_list(r.token))],
          ret |-> IntV(r.st.cursor), pd |-> NoPd]

\* parse_list(block, m, state)
parse_list(block, m, st) ==
    LET text == m.list_3
        ap == append_paragraph(st)
        marker == m.list_2
        ordered == Len(marker) > 1
        depth == st.depth
        start == ParseInt(SubSeq(marker, 1, Len(marker) - 1))
        token == [type |-> "list", children |-> <<>>, tight |-> TRUE,
                  bullet |-> marker[Len(marker)],
                  attrs |-> IF ordered /\ start # 1
                            THEN [depth |-> depth, ordered |-> ordered, start |-> start]
                            ELSE [depth |-> depth, ordered |-> ordered]]
        groups == [ok |-> TRUE, spaces |-> m.list_1, marker |-> marker, text |-> text]
        rules == list_item_rules(block, depth)
        bullet == get_list_bullet(marker[Len(marker)])
    IN IF (Strip(text) = <<>> \/ (ordered /\ start # 1)) /\ Truthy(ap.ret)
       THEN [st |-> ap.st, ret |-> ap.ret, pd |-> NoPd]
       ELSE list_parsed(ItemLoop(block, bullet, groups, token,
                                 [st EXCEPT !.cursor = m.end + 1], rules))

(***************************************************************************)
(* plugins/def_list.py                                                     *)
(***************************************************************************)
\* [^\n]+\n at offset j: the offset after the line, -1 when the line is empty
\* or has no newline
NextLine(s, j) ==
    IF j < Len(s) /\ FindFrom(s, j, {NL}) > j THEN FindFrom(s, j, {NL}) + 1 ELSE -1

\* (?:[^\n]+\n)* from offset j, the lazy continuation lines
RECURSIVE SkipLines(_, _)
SkipLines(s, j) == IF NextLine(s, j) = -1 THEN j ELSE SkipLines(s, NextLine(s, j))

\* (?:(?:[ \t]*\n)*[ \t]+[^\n]+\n)* from offset j: blank lines and an indented
\* line, as often as there is one.  (A line of blanks only, two or more, that
\* the pattern could read either way is not among the inputs.)
RECURSIVE IndentedLines(_, _)
IndentedLines(s, j) ==
    IF At(s, BlankEnd(s, j)) \in Blank /\ NextLine(s, BlankEnd(s, j) + 1) # -1
    THEN IndentedLines(s, NextLine(s, BlankEnd(s, j) + 1))
    ELSE j

\* the groups of DEF_PATTERN from offset j, -1 when no group starts there:
\* (?:\:[ \t]+.*\n(?:[^\n]+\n)*(?:(?:[ \t]*\n)*[ \t]+[^\n]+\n)*(?:[ \t]*\n)*)+
RECURSIVE def_groups_from(_, _)
\* the groups that follow a group that ends at offset e
def_groups_more(s, e) == IF def_groups_from(s, e) = -1 THEN e ELSE def_groups_from(s, e)
def_groups_from(s, j) ==
    IF At(s, j) = ":" /\ At(s, j + 1) \in Blank /\ FindFrom(s, j, {NL}) # -1
    THEN def_groups_more(
             s, BlankEnd(s, IndentedLines(s, SkipLines(s, FindFrom(s, j, {NL}) + 1))))
    ELSE -1

\* \n?(?:...)+ from the end h of the head
def_groups_at(s, h) ==
    IF At(s, h) = NL THEN def_groups_from(s, h + 1) ELSE def_groups_from(s, h)

\* the ends of the heads (?:[^\n]+\n)+ that start at offset i
RECURSIVE HeadEnds(_, _)
HeadEnds(s, i) ==
    IF NextLine(s, i) = -1 THEN {} ELSE {NextLine(s, i)} \cup HeadEnds(s, NextLine(s, i))

\* DEF_PATTERN at offset i, hs the ends of the heads the groups can follow:
\* the head is lazy, the shortest of them
def_with_head(s, i, hs) ==
    IF LineStart(s, i) /\ hs # {}
    THEN [ok |-> TRUE, start |-> i, end |-> def_groups_at(s, MinOf(hs)),
          def_list_head |-> PySlice(s, i, MinOf(hs))]
    ELSE NoMatch

\* DEF_PATTERN at offset i under re.M
def_at(s, i) == def_with_head(s, i, {h \in HeadEnds(s, i) : def_groups_at(s, h) # -1})

\* DEF_RE.search(string, pos): the match at the leftmost offset that has one
def_search(s, pos) ==
    IF \E i \in SearchPos(s, pos)..Len(s) : def_at(s, i).ok
    THEN def_at(s, CHOOSE i \in SearchPos(s, pos)..Len(s) :
                      /\ def_at(s, i).ok
                      /\ \A j \in SearchPos(s, pos)..(i - 1) : ~def_at(s, j).ok)
    ELSE NoMatch

\* _parse_def_item(block, m) run to its end, as list() runs it: the heads it
\* yields, and whether it raises.  Every match holds a definition, so that
\* _process_text is called, and its block.state_cls() is an AttributeError
\* when block is a BlockState.  (No call in the sources runs the generator on
\* a BlockParser: the items it would parse are not modelled.)
parse_def_item(block, m) ==
    [raised |-> block.cls # "BlockParser",
     heads |-> [k \in 1..(Len(SplitLines(m.def_list_head)) - 1) |->
                  [type |-> "def_list_head", text |-> SplitLines(m.def_list_head)[k]]]]

\* the loop of parse_def_list from the match m2 on, n generators appended so
\* far: pos = m2.start() and DEF_RE.search(state.src, pos).  When the search
\* finds m2 again the loop does not end.
RECURSIVE def_list_loop(_, _, _, _)
def_list_loop(s, pos, m2, n) ==
    IF ~m2.ok THEN [ends |-> TRUE, pos |-> pos, n |-> n]
    ELSE IF def_search(s, m2.start).start = m2.start
    THEN [ends |-> FALSE, pos |-> m2.start, n |-> n + 1]
    ELSE def_list_loop(s, m2.start, def_search(s, m2.start), n + 1)

\* the end of parse_def_list: state.append_token and the return, after the
\* call first of _parse_def_item and the loop L.  A loop that does not end
\* leaves the handler without a return.
def_list_parsed(st, first, L) ==
    IF first.raised \/ ~L.ends
    THEN [st |-> [st EXCEPT !.exc = TRUE],
          ret |-> IF first.raised THEN RaiseV ELSE [kind |-> "loop", v |-> 0],
          pd |-> NoPd]
    ELSE [st |-> [st EXCEPT !.tokens =
                     Append(@, [type |-> "definition_list",
                                child_nodes |-> first.heads
                                    \o [k \in 1..L.n |-> [type |-> "generator"]]])],
          ret |-> IntV(L.pos + 1), pd |-> NoPd]

\* parse_def_list(block, m, state); _parse_def_item is handed the state in
\* the place of the block, the loop starts from DEF_RE.match(state.src, pos + 1),
\* and the generators it appends are not run
parse_def_list(block, m, st) ==
    def_list_parsed(st, parse_def_item(st, m),
                    def_list_loop(st.src, m.start,
                                  def_at(st.src, SearchPos(st.src, m.start + 1)), 0))

(***************************************************************************)
(* block_parser.py: the handlers and the dispatcher                        *)
(***************************************************************************)
\* BlockParser.parse_blank_line
parse_blank_line(m, st) ==
    [st |-> [st EXCEPT !.tokens = Append(@, [type |-> "blank_line"])],
     ret |-> IntV(m.end), pd |-> NoPd]

\* the closing fence of BlockParser.parse_fenced_code at offset i:
\* ^ {0,3}c{k,}[ \t]*(?:\n|$) under re.M
code_end_at(s, c, k, i) ==
    LET sp == RunLen(s, i, {" "})
        r == RunLen(s, i + sp, {c})
        w == RunLen(s, i + sp + r, Blank)
        j == i + sp + r + w
    IN [ok |-> LineStart(s, i) /\ sp <= 3 /\ r >= k /\ LineEnd(s, j),
        start |-> i,
        end |-> IF j < Len(s) THEN j + 1 ELSE j]

\* BlockParser.parse_fenced_code: a plain fenced code block
code_end_first(s, c, k, hits) ==
    IF hits = {} THEN NoMatch ELSE code_end_at(s, c, k, MinOf(hits))
\* the search of the closing fence from pos on
code_end_search(s, c, k, pos) ==
    code_end_first(s, c, k, {i \in SearchPos(s, pos)..Len(s) : code_end_at(s, c, k, i).ok})
\* parse_fenced_code from the search of the closing fence on
block_code_closed(st, cursor_start, m2) ==
    [st |-> [st EXCEPT !.tokens =
                Append(@, [type |-> "block_code", style |-> "fenced",
                           raw |-> IF m2.ok
                                   THEN PySlice(st.src, cursor_start, m2.start)
                                   ELSE PySliceFrom(st.src, cursor_start)])],
     ret |-> IntV(IF m2.ok THEN m2.end ELSE CursorMax(st)),
     pd |-> NoPd]
block_parse_fenced_code(m, st) ==
    LET marker == m.fenced_2
        cursor_start == m.end + 1
    IN block_code_closed(st, cursor_start,
           code_end_search(st.src, marker[1], Len(marker), cursor_start))

\* FencedDirective.parse_directive(block, m, state)
parse_directive(blk, m, st) ==
    process_directive(blk, m.fenced_directive_mark, m.end, st)

\* FencedDirective.parse_fenced_code(block, m, state)
parse_fenced_code(blk, m, st) ==
    LET info == m.fenced_3
    IN IF info = <<>> \/ ~type_re_match(info) THEN block_parse_fenced_code(m, st)
       ELSE IF st.depth >= blk.max_nested_level THEN block_parse_fenced_code(m, st)
       ELSE process_directive(blk, m.fenced_2, m.start, st)

\* the pattern of a rule at offset i
RuleAt(name, s, i, blk) ==
    CASE name = "fenced_directive" -> fenced_directive_at(s, i, blk.markers)
      [] name = "fenced_code" -> fenced_code_at(s, i)
      [] name = "list" -> list_at(s, i, 3)
      [] name = "def_list" -> def_at(s, i)
      [] OTHER -> blank_line_at(s, i)

\* Parser.parse_method(m, state): the handler registered for the rule;
\* FencedDirective.__call__ registers its parse_fenced_code for the default
\* marker set and its own rule otherwise
Handler(name, blk, m, st) ==
    CASE name = "fenced_directive" -> parse_directive(blk, m, st)
      [] name = "fenced_code" ->
            IF blk.markers = "default" THEN parse_fenced_code(blk, m, st)
            ELSE block_parse_fenced_code(m, st)
      [] name = "list" -> parse_list(blk, m, st)
      [] name = "def_list" -> parse_def_list(blk, m, st)
      [] OTHER -> parse_blank_line(m, st)

\* sc.search(state.src, state.cursor): the leftmost offset where a rule of
\* rs matches, and the first rule of rs that matches there
RuleMatch(rs, s, i0, blk, k0) ==
    [ok |-> TRUE, name |-> rs[k0], m |-> RuleAt(rs[k0], s, i0, blk)]
\* the first rule of rs that matches at offset i0
FirstRuleAt(rs, s, i0, blk) ==
    RuleMatch(rs, s, i0, blk, MinOf({k \in 1..Len(rs) : RuleAt(rs[k], s, i0, blk).ok}))
FirstOf(rs, s, blk, hits) ==
    IF hits = {} THEN [ok |-> FALSE] ELSE FirstRuleAt(rs, s, MinOf(hits), blk)
FirstMatch(st, rs, blk) ==
    FirstOf(rs, st.src, blk,
            {i \in SearchPos(st.src, st.cursor)..Len(st.src) :
                \E k \in 1..Len(rs) : RuleAt(rs[k], st.src, i, blk).ok})

\* a turn of the loop of BlockParser.parse after the handler: a falsy return
\* makes the line a paragraph
Dispatched(st1, r) ==
    [st |-> IF r.st.exc THEN r.st
            ELSE IF Truthy(r.ret) THEN [r.st EXCEPT !.cursor = r.ret.v]
            ELSE [add_paragraph(r.st, get_text(r.st, find_line_end(r.st)))
                     EXCEPT !.cursor = find_line_end(r.st)],
     ret |-> r.ret, pd |-> r.pd, pre |-> st1, post |-> r.st]

\* a turn of the loop from the handler on
Dispatch(st1, fm, blk) == Dispatched(st1, Handler(fm.name, blk, fm.m, st1))

\* one turn of the loop of BlockParser.parse, given the match fm: the text
\* before the match joins a paragraph, then the handler runs
DispatchStep(st, fm, blk) ==
    Dispatch(IF fm.m.start > st.cursor
             THEN [add_paragraph(st, get_text(st, fm.m.start))
                      EXCEPT !.cursor = fm.m.start]
             ELSE st,
             fm, blk)

\* the end of BlockParser.parse: the rest of the text is a paragraph
ParseRest(st) ==
    IF st.cursor < CursorMax(st)
    THEN [add_paragraph(st, PySliceFrom(st.src, st.cursor))
            EXCEPT !.cursor = CursorMax(st)]
    ELSE st

\* a turn of the loop of BlockParser.parse on the match fm, and the turns
\* that follow it
BlockTurn(st, rs, blk, fm) ==
    IF fm.ok THEN BlockParse(DispatchStep(st, fm, blk).st, rs, blk) ELSE ParseRest(st)

\* BlockParser.parse(state, rules)
BlockParse(st, rs, blk) ==
    IF st.exc THEN st
    ELSE IF st.cursor < CursorMax(st)
    THEN BlockTurn(st, rs, blk, FirstMatch(st, rs, blk))
    ELSE ParseRest(st)

(***************************************************************************)
(* renderers/_list.py, and the MarkdownRenderer methods it calls back       *)
(***************************************************************************)
\* str(n) of a natural number
DigitChar(d) ==
    CASE d = 0 -> "0" [] d = 1 -> "1" [] d = 2 -> "2" [] d = 3 -> "3" [] d = 4 -> "4"
      [] d = 5 -> "5" [] d = 6 -> "6" [] d = 7 -> "7" [] d = 8 -> "8" [] OTHER -> "9"
RECURSIVE Str(_)
Str(n) == IF n < 10 THEN <<DigitChar(n)>> ELSE Str(n \div 10) \o <<DigitChar(n % 10)>>

\* s[::-1]
Reverse(s) == [i \in 1..Len(s) |-> s[Len(s) + 1 - i]]

\* str.splitlines(): the lines without their terminators, no empty last line
RECURSIVE splitlines(_)
splitlines(s) ==
    LET e == FindFrom(s, 0, {NL})
    IN IF s = <<>> THEN <<>>
       ELSE IF e = -1 THEN <<s>>
       ELSE <<PySlice(s, 0, e)>> \o splitlines(PySliceFrom(s, e + 1))

\* a rendering: the text, or raised when a KeyError ended it
Rendered(text) == [raised |-> FALSE, text |-> text]
RenderRaised == [raised |-> TRUE, text |-> <<>>]

RECURSIVE render_token(_)
RECURSIVE render_list(_)
RECURSIVE render_list_item(_, _)
RECURSIVE RenderChildren(_, _, _)
RECURSIVE RenderOrderedFrom(_, _, _)
RECURSIVE RenderUnorderedFrom(_, _, _)

\* the body of the loop of _render_list_item over item["children"], from the
\* k-th child on: a list child gets tok["parent"] = item, a blank line adds ' '
RenderChildren(item, k, text) ==
    IF k > Len(item.children) THEN Rendered(text)
    ELSE LET tok == item.children[k]
             tok2 == IF tok.type = "list" THEN [parent |-> item] @@ tok ELSE tok
             gap == IF tok.type = "blank_line" THEN <<" ">> ELSE <<>>
             r == render_token(tok2)
         IN IF r.raised THEN RenderRaised
            ELSE RenderChildren(item, k + 1, text \o gap \o r.text)

\* the lines after the first, each behind the prefix
RECURSIVE PrefixLines(_, _)
PrefixLines(lines, prefix) ==
    IF Len(lines) = 0 THEN <<>>
    ELSE (IF Head(lines) # <<>> THEN prefix \o Head(lines) \o <<NL>> ELSE <<NL>>)
         \o PrefixLines(Tail(lines), prefix)

\* _render_list_item(renderer, parent, item, state)
render_list_item(parent, item) ==
    LET leading == parent.leading
        r == RenderChildren(item, 1, <<>>)
        lines == splitlines(r.text)
        text == (IF Len(lines) > 0 THEN lines[Len(lines)] ELSE <<>>) \o <<NL>>
        prefix == Spaces(Len(leading) + 1)
    IN IF r.raised THEN RenderRaised
       ELSE Rendered(Reverse(leading) \o text
                     \o PrefixLines(IF Len(lines) > 0 THEN Tail(lines) ELSE <<>>, prefix))

\* _render_ordered_list(renderer, token, state): the items from the k-th on
RenderOrderedFrom(token, k, start) ==
    IF k > Len(token.children) THEN Rendered(<<>>)
    ELSE LET leading == Str(start + 1) \o <<token.bullet, " ">>
             parent == [leading |-> leading, tight |-> ~token.tight]
             r == render_list_item(parent, token.children[k])
             rest == RenderOrderedFrom(token, k + 1, start + 2)
         IN IF r.raised \/ rest.raised THEN RenderRaised
            ELSE Rendered(r.text \o rest.text)

render_ordered_list(token) ==
    RenderOrderedFrom(token, 1,
        IF "start" \in DOMAIN token.attrs THEN token.attrs.start ELSE 1)

\* _render_unordered_list(renderer, token, state): token['children'][1:]
RenderUnorderedFrom(token, k, parent) ==
    IF k > Len(token.children) THEN Rendered(<<>>)
    ELSE LET r == render_list_item(parent, token.children[k])
             rest == RenderUnorderedFrom(token, k + 1, parent)
         IN IF r.raised \/ rest.raised THEN RenderRaised
            ELSE Rendered(r.text \o rest.text)

render_unordered_list(token) ==
    RenderUnorderedFrom(token, 2,
        [leading |-> <<" ", token.bullet>>, tight |-> ~token.tight])

\* render_list(renderer, token, state)
\* render_list from the rendering of the children on
list_rendered(token, children) ==
    IF children.raised THEN RenderRaised
    ELSE IF "parent" \in DOMAIN token
    THEN IF "tight" \notin DOMAIN token.parent THEN RenderRaised
         ELSE IF ~token.parent.tight THEN children
         ELSE Rendered(children.text \o <<NL>>)
    ELSE Rendered(strip_end(children.text))
render_list(token) ==
    list_rendered(token,
        IF ~token.attrs.ordered
        THEN render_ordered_list(token)
        ELSE render_unordered_list(token))

\* MarkdownRenderer.render_token: the method named by token['type'].  The
\* text of a paragraph is stripped by the inline pass and holds no inline
\* markup here.
render_token(tok) ==
    CASE tok.type = "paragraph" -> Rendered(Strip(tok.text) \o <<NL, NL>>)
      [] tok.type = "block_text" -> Rendered(Strip(tok.text) \o <<NL>>)
      [] tok.type = "blank_line" -> Rendered(<<>>)
      [] tok.type = "list" -> render_list(tok)
      [] OTHER ->
            Rendered(<<"~", "~", "~", NL>> \o tok.raw
                     \o (IF tok.raw # <<>> /\ tok.raw[Len(tok.raw)] # NL
                         THEN <<NL>> ELSE <<>>)
                     \o <<"~", "~", "~", NL, NL>>)

(***************************************************************************)
(* The inputs                                                              *)
(***************************************************************************)
\* the lines of the list inputs: item lines of three marker classes, an
\* item line indented by two, and the blank line
ListLines ==
    {<<"-", " ", "a">>, <<"*", " ", "b">>, <<"1", ".", " ", "a">>,
     <<" ", " ", "2", ".", " ", "b">>, <<>>}

\* the lines of the fence inputs for the marker character c: an opening fence
\* of three markers with a type, closing lines of three and of four markers,
\* a line of text and an option line
FenceLines(c) ==
    {<<c, c, c, "{", "t", "i", "p", "}">>, <<c, c, c>>, <<c, c, c, c>>, <<"b">>,
     <<":", "s", "t", "y", "l", "e", ":", " ", "x">>}

\* the lines of the inputs with a fence inside an item: an item line, a fence
\* line indented to the content of the item, and a line of text
ItemFenceLines == {<<"-", " ", "a">>, <<" ", "~", "~", "~">>, <<"b">>}

\* the lines of the definition list inputs: a line of text, a definition
\* line, an indented line and the blank line
DefLines == {<<"a">>, <<":", " ", "b">>, <<" ", "c">>, <<>>}

\* the texts of n lines of L, each line ended by its newline
RECURSIVE TextsOf(_, _)
TextsOf(L, n) ==
    IF n = 0 THEN {<<>>}
    ELSE {l \o <<NL>> \o t : l \in L, t \in TextsOf(L, n - 1)}

Texts(L) == UNION {TextsOf(L, n) : n \in 1..MaxLines}

Inputs ==
    [markers : {"default"},
     src : Texts(ListLines) \cup Texts(FenceLines("~")) \cup Texts(ItemFenceLines)]
    \cup [markers : {"colon"}, src : Texts(FenceLines(":"))]
    \cup [markers : {"def_list"}, src : Texts(DefLines)]

\* The rules a state of depth d is parsed with: block.rules for the document,
\* and for the text of an item of a list at depth d - 1 the rules parse_list
\* hands to _parse_list_item.
StateRules(blk, d) == IF d = 0 THEN blk.rules ELSE list_item_rules(blk, d - 1)

NoRender == [raised |-> FALSE, text |-> <<>>]
NoAdmon == [raised |-> FALSE, token |-> [type |-> "none"]]

(***************************************************************************)
(* The state machine                                                       *)
(***************************************************************************)
\* BlockState.process(src) on the document, or child_state(src) on the text of
\* an item, and the call of BlockParser.parse on it
Init ==
    \E inp \in Inputs, d \in 0..MaxNestedLevel :
        /\ parser = Block(inp.markers)
        /\ sc_rules = StateRules(Block(inp.markers), d)
        /\ state = NewState(inp.src, d)
        /\ pc = "parse"
        /\ rule = "none"
        /\ mstart = -1
        /\ pre = NewState(inp.src, d)
        /\ post = NewState(inp.src, d)
        /\ ret = NoneV
        /\ pd = NoPd
        /\ rk = 0
        /\ out = NoRender
        /\ reparsed = <<>>
        /\ admon = NoAdmon

\* the variables a turn of the loop writes
Turned(name, fm, d) ==
    /\ state' = d.st
    /\ pc' = IF d.st.exc THEN "raised" ELSE "parse"
    /\ rule' = name
    /\ mstart' = fm.m.start
    /\ pre' = d.pre
    /\ post' = d.post
    /\ ret' = d.ret
    /\ pd' = d.pd

\* one turn of the loop of BlockParser.parse in which the rule `name` matches
TurnOn(name, fm) ==
    /\ fm.ok
    /\ fm.name = name
    /\ Turned(name, fm, DispatchStep(state, fm, parser))
Turn(name) ==
    /\ state.cursor < CursorMax(state)
    /\ TurnOn(name, FirstMatch(state, sc_rules, parser))
    /\ UNCHANGED <<parser, sc_rules, rk, out, reparsed, admon>>

\* the turns of the loop, one action for each handler
ParseList == pc = "parse" /\ Turn("list")
ParseFencedCode == pc = "parse" /\ Turn("fenced_code")
ParseDirective == pc = "parse" /\ Turn("fenced_directive")
ParseBlankLine == pc = "parse" /\ Turn("blank_line")
ParseDefList == pc = "parse" /\ Turn("def_list")

\* the loop of BlockParser.parse ends: no rule matches or the cursor is at
\* the end, and what is left of the text is a paragraph
Finish ==
    /\ pc = "parse"
    /\ ~(state.cursor < CursorMax(state) /\ FirstMatch(state, sc_rules, parser).ok)
    /\ state' = ParseRest(state)
    /\ pc' = "done"
    /\ UNCHANGED <<parser, sc_rules, rule, mstart, pre, post, ret, pd, rk, out,
                   reparsed, admon>>

\* render_list on a list token of the finished parse.  Its one write to the
\* tokens, tok["parent"] on a list inside an item, is the parent handed on in
\* RenderChildren.
RenderList ==
    /\ pc = "done"
    /\ \E k \in 1..Len(state.tokens) :
          /\ state.tokens[k].type = "list"
          /\ rk' = k
          /\ out' = render_list(state.tokens[k])
    /\ pc' = "rendered"
    /\ UNCHANGED <<parser, sc_rules, state, rule, mstart, pre, post, ret, pd,
                   reparsed, admon>>

\* Markdown.parse on the rendered text: a text that does not end in a newline
\* gets one, and a state of the depth of the first parse is parsed
Reparse ==
    /\ pc = "rendered"
    /\ ~out.raised
    /\ LET s == IF out.text # <<>> /\ out.text[Len(out.text)] = NL
                THEN out.text ELSE Append(out.text, NL)
       IN reparsed' = BlockParse(NewState(s, state.depth), sc_rules, parser).tokens
    /\ pc' = "reparsed"
    /\ UNCHANGED <<parser, sc_rules, state, rule, mstart, pre, post, ret, pd, rk,
                   out, admon>>

\* Admonition.parse(block, m, state) called with its arguments in the order
\* of its signature, on the header _process_directive found and the state it
\* was given
AdmonitionParse ==
    /\ pc = "raised"
    /\ pd.called
    /\ pd.header
    /\ parse_type(directive_re_search(pd.text)) \in SUPPORTED_NAMES
    /\ admon' = admonition_parse(parser, directive_re_search(pd.text), pre)
    /\ pc' = "handled"
    /\ UNCHANGED <<parser, sc_rules, state, rule, mstart, pre, post, ret, pd, rk,
                   out, reparsed>>

Next ==
    \/ ParseList
    \/ ParseFencedCode
    \/ ParseDirective
    \/ ParseBlankLine
    \/ ParseDefList
    \/ Finish
    \/ RenderList
    \/ Reparse
    \/ AdmonitionParse

Spec == Init /\ [][Next]_vars

(***************************************************************************)
(* The claims                                                              *)
(***************************************************************************)
\* the lines of a text whose lines all end in a newline
LinesOf(s) == SubSeq(SplitLines(s), 1, Len(SplitLines(s)) - 1)

\* the token render_list was called on
RenderedToken == state.tokens[rk]

\* C1: in _process_directive, for an opening fence of marker character c and
\* length n, the close is the first line after the opening line that is, after
\* at most 2 spaces, a run of c of length >= n followed only by spaces and
\* tabs; a line of exactly n markers closes the construct.
C1_ClosingFence ==
    pd.called =>
        pd.end_m = end_re_search(pre.src, pd.marker[1], Len(pd.marker),
                                 EolFrom(pre.src, mstart) + 1)

\* C2: when _process_directive has found the header and reaches its handler,
\* the position it returns (end_pos) is the end of the closing match, its
\* line terminator included, when a closing fence was found, and
\* state.cursor_max when none was found.
C2_ReturnedPosition ==
    pd.called /\ pd.header =>
        pd.end_pos = IF pd.end_m.ok THEN pd.end_m.end ELSE CursorMax(pre)

\* C3: forward progress: a position returned by parse_list, parse_directive or
\* FencedDirective.parse_fenced_code for a match that starts at p is greater
\* than p, and the cursor of the state is never smaller than it was before
\* the handler ran.
C3_ForwardProgress ==
    /\ (/\ \/ rule \in {"list", "fenced_directive"}
           \/ rule = "fenced_code" /\ parser.markers = "default"
        /\ ret.kind = "int")
       => ret.v > mstart
    /\ post.cursor >= pre.cursor
    /\ state.cursor >= pre.cursor

\* C4: when the text between the opening marker run and the closing fence
\* does not match the header from its first character on, _process_directive
\* returns None, calls no handler and leaves the tokens and the cursor of the
\* state as they were.
C4_HeaderMismatchDeclines ==
    pd.called /\ ~directive_re_match(pd.text).ok =>
        /\ ret = NoneV
        /\ ~pd.header
        /\ post.tokens = pre.tokens
        /\ post.cursor = pre.cursor

\* the marker class of an item line that is not indented: the bullet literal,
\* or the delimiter after the digits
MarkerClass(line) ==
    IF line[1] \in {"*", "+", "-"} THEN line[1] ELSE At(line, RunLen(line, 0, Digit))
IsMarkerLine(line) == line # <<>> /\ line[1] \in {"*", "+", "-"} \cup Digit
\* the number of lines at the head of lines that have the class of the first
HeadRun(lines) ==
    LET other == {k \in 1..Len(lines) : MarkerClass(lines[k]) # MarkerClass(lines[1])}
    IN IF other = {} THEN Len(lines) ELSE MinOf(other) - 1
\* the lengths of the runs of lines of one marker class
RECURSIVE ClassRuns(_)
ClassRuns(lines) ==
    IF lines = <<>> THEN <<>>
    ELSE <<HeadRun(lines)>> \o ClassRuns(SubSeq(lines, HeadRun(lines) + 1, Len(lines)))

\* C5: in a document of item lines that are not indented, a line whose marker
\* is of the class of the list before it is a new item of that list, and a
\* line of another class starts a sibling list: the tokens are one list for
\* each run of lines of one class, with one item for each line of the run
\* ('- a', '- b' is one list of two items; '- a', '* b' is two lists).
C5_MarkerClass ==
    (/\ pc = "done"
     /\ state.depth = 0
     /\ \A k \in 1..Len(LinesOf(state.src)) : IsMarkerLine(LinesOf(state.src)[k]))
    => /\ Len(state.tokens) = Len(ClassRuns(LinesOf(state.src)))
       /\ \A k \in 1..Len(state.tokens) :
             /\ state.tokens[k].type = "list"
             /\ Len(state.tokens[k].children) = ClassRuns(LinesOf(state.src))[k]

\* the children of an item hold a blank line or more than one paragraph
ItemLoose(children) ==
    \/ \E b \in 1..Len(children) : children[b].type = "blank_line"
    \/ Cardinality({b \in 1..Len(children) :
                       children[b].type \in {"paragraph", "block_text"}}) > 1

\* C6: tightness: a list token is tight when no blank line separates two of
\* its items and no item holds a blank line or more than one paragraph; in a
\* document without a blank line, two items on adjacent lines leave the list
\* tight.
C6_Tightness ==
    (/\ pc = "done"
     /\ \A k \in 1..Len(LinesOf(state.src)) : LinesOf(state.src)[k] # <<>>)
    => \A k \in 1..Len(state.tokens) :
          (/\ state.tokens[k].type = "list"
           /\ \A a \in 1..Len(state.tokens[k].children) :
                 ~ItemLoose(state.tokens[k].children[a].children))
          => state.tokens[k].tight

\* the number a rendered line begins with when it begins with digits, the
\* delimiter and a space, and -1 when it does not
MarkerNumber(line, bullet) ==
    IF /\ RunLen(line, 0, Digit) >= 1
       /\ At(line, RunLen(line, 0, Digit)) = bullet
       /\ At(line, RunLen(line, 0, Digit) + 1) = " "
    THEN ParseInt(SubSeq(line, 1, RunLen(line, 0, Digit)))
    ELSE -1
\* the numbers of the item markers of a rendered list, in the order of the lines
LeadingNumbers(text, bullet) ==
    SelectSeq([k \in 1..Len(SplitLines(text)) |->
                  MarkerNumber(SplitLines(text)[k], bullet)],
              LAMBDA n : n >= 0)
\* attrs.start, 1 when absent
StartOf(token) == IF "start" \in DOMAIN token.attrs THEN token.attrs.start ELSE 1

\* C7: for an ordered list token of n items and start value s, render_list
\* emits n items whose markers are s, s+1, ..., s+n-1 in the order of the
\* items, each followed by the delimiter of the list and a space.
C7_OrderedMarkers ==
    pc = "rendered" /\ RenderedToken.attrs.ordered =>
        /\ ~out.raised
        /\ LeadingNumbers(out.text, RenderedToken.bullet)
              = [i \in 1..Len(RenderedToken.children) |-> StartOf(RenderedToken) + i - 1]

\* C8: round trip: a tight list token rendered by render_list and parsed
\* again is a list of the same number of items, of the same ordered or
\* unordered kind and of the same depth.
C8_RoundTrip ==
    /\ pc = "rendered" /\ RenderedToken.tight => ~out.raised
    /\ pc = "reparsed" /\ RenderedToken.tight =>
          \E j \in 1..Len(reparsed) :
              /\ reparsed[j].type = "list"
              /\ Len(reparsed[j].children) = Len(RenderedToken.children)
              /\ reparsed[j].attrs.ordered = RenderedToken.attrs.ordered
              /\ reparsed[j].attrs.depth = RenderedToken.attrs.depth

\* the list tokens of a sequence of tokens, those inside the items included
RECURSIVE ListsIn(_)
ListsIn(tokens) ==
    UNION {IF tokens[k].type = "list"
           THEN {tokens[k]}
                \cup UNION {ListsIn(tokens[k].children[a].children) :
                               a \in 1..Len(tokens[k].children)}
           ELSE {} : k \in 1..Len(tokens)}

\* C9: the nesting ceiling: no list token of a parse has attrs.depth >=
\* max_nested_level; parse_list called at a depth >= max_nested_level - 1
\* leaves no list among the children of its items; parse_fenced_code called at
\* a depth >= max_nested_level makes a fence with a {type} a plain code block
\* and does not call _process_directive; at the ceiling nothing is raised.
C9_NestingCeiling ==
    /\ \A t \in ListsIn(state.tokens) \cup ListsIn(post.tokens) \cup ListsIn(reparsed) :
          t.attrs.depth < parser.max_nested_level
    /\ (rule = "list" /\ pre.depth >= parser.max_nested_level - 1)
       => \A t \in ListsIn(post.tokens) :
             \A a \in 1..Len(t.children) :
                \A b \in 1..Len(t.children[a].children) :
                   t.children[a].children[b].type # "list"
    /\ (/\ rule = "fenced_code"
        /\ parser.markers = "default"
        /\ pre.depth >= parser.max_nested_level)
       => /\ ~pd.called
          /\ Len(post.tokens) = Len(pre.tokens) + 1
          /\ post.tokens[Len(post.tokens)].type = "block_code"
    /\ (rule = "list" /\ pre.depth >= parser.max_nested_level - 1) => pc # "raised"
    /\ (parser.markers = "default" /\ state.depth >= parser.max_nested_level)
       => pc # "raised"

\* a list parsed at the ceiling whose item holds, as text, a line that opens
\* a list where 'list' is among the rules
C9_CeilingReached ==
    /\ rule = "list"
    /\ pre.depth >= parser.max_nested_level - 1
    /\ \E t \in ListsIn(post.tokens) :
          \E a \in 1..Len(t.children) :
             \E b \in 1..Len(t.children[a].children) :
                /\ t.children[a].children[b].type \in {"paragraph", "block_text"}
                /\ \E i \in 0..Len(t.children[a].children[b].text) :
                      list_at(t.children[a].children[b].text, i, 3).ok

\* C10: the token Admonition.parse returns has type 'admonition', its attrs
\* is a mapping that holds 'name', the directive type, and 'class' when a
\* style option is given, and its children is the sequence of the title token
\* and the content token.
C10_AdmonitionToken ==
    pc = "handled" /\ ~admon.raised =>
        /\ admon.token.type = "admonition"
        /\ admon.token.attrs.py = "dict"
        /\ admon.token.attrs.v.name = parse_type(directive_re_search(pd.text))
        /\ HasKey(parse_options(directive_re_search(pd.text)), STYLE)
           => /\ "class" \in DOMAIN admon.token.attrs.v
              /\ admon.token.attrs.v.class
                    = Lookup(parse_options(directive_re_search(pd.text)), STYLE)
        /\ admon.token.children.py = "list"
        /\ Len(admon.token.children.v) = 2
        /\ admon.token.children.v[1].type = "admonition_title"
        /\ admon.token.children.v[2].type = "admonition_content"

\* the types of the children of the items of a list token
ItemChildTypes(token) ==
    UNION {{token.children[a].children[b].type :
               b \in 1..Len(token.children[a].children)} :
           a \in 1..Len(token.children)}

\* C11: after parse_list has collected the items, _transform_tight_list has
\* made every paragraph child of every item a block_text exactly when the
\* list is tight: a tight list holds no 'paragraph' child, and in a loose
\* list no type is changed, so it holds no 'block_text' child.
C11_TightTransform ==
    pc = "done" =>
        \A k \in 1..Len(state.tokens) :
            state.tokens[k].type = "list" =>
                /\ state.tokens[k].tight
                   => "paragraph" \notin ItemChildTypes(state.tokens[k])
                /\ ~state.tokens[k].tight
                   => "block_text" \notin ItemChildTypes(state.tokens[k])

\* C12: source order: when a line of an item matched another block rule and
\* the handler of that rule succeeded, then on return from parse_list the
\* tokens that were there before are unchanged and in order, the list token
\* sits at the index state.tokens had before the handler ran, the tokens of
\* the handler follow it, and parse_list returns the position the handler
\* returned.
C12_DeferredOrder ==
    (rule = "list" /\ "deferred" \in DOMAIN pd) =>
        /\ pd.tok_index = Len(pre.tokens)
        /\ SubSeq(post.tokens, 1, pd.tok_index) = pre.tokens
        /\ Len(post.tokens) > pd.tok_index + 1
        /\ post.tokens[pd.tok_index + 1].type = "list"
        /\ post.tokens[pd.tok_index + 2].type = "block_code"
        /\ ret = pd.handler_ret

\* the match parse_list was given, and the line that follows the marker line
ListMatch == list_at(pre.src, mstart, 3)
FollowingLine ==
    PySlice(pre.src, ListMatch.end + 1, EolFrom(pre.src, ListMatch.end + 1))
\* the leading width of the first item, and the continuation width: the
\* leading width plus the whitespace between the marker and the content
LeadingWidth == Len(ListMatch.list_2) + Len(ListMatch.list_1)
ContinuationWidth == LeadingWidth + RunLen(ListMatch.list_3, 0, Blank)
\* parse_list made a list token of an item whose first line has content
ItemWithContent ==
    /\ rule = "list"
    /\ Len(post.tokens) > Len(pre.tokens)
    /\ Strip(ListMatch.list_3) # <<>>
\* the line after the marker line is not blank and is indented at least to
\* the continuation width
FollowingLineContinues ==
    /\ ItemWithContent
    /\ ListMatch.end + 1 < Len(pre.src)
    /\ Strip(FollowingLine) # <<>>
    /\ RunLen(FollowingLine, 0, {" "}) >= ContinuationWidth
\* p is a whole line, or the head of a line, of the text t
HoldsLine(t, p) ==
    \E i \in 0..(Len(t) - Len(p)) :
        /\ LineStart(t, i)
        /\ PySlice(t, i, i + Len(p)) = p

\* C13: for an item whose first line has content, the continuation width is
\* the leading width plus the width of the whitespace between the marker and
\* the content, so it is greater than the leading width; a following line
\* that is not blank and is indented at least that much does not end the
\* item: the position returned is past that line, and the line, its
\* indentation stripped, is in the text of the first item.
C13_Continuation ==
    /\ ItemWithContent
       => /\ compile_continue_width(ListMatch.list_3, LeadingWidth).continue_width
                = ContinuationWidth
          /\ ContinuationWidth > LeadingWidth
    /\ FollowingLineContinues
       => /\ ret.kind = "int"
          /\ ret.v > EolFrom(pre.src, ListMatch.end + 1)
          /\ post.tokens[Len(pre.tokens) + 1].type = "list"
          /\ \E b \in 1..Len(post.tokens[Len(pre.tokens) + 1].children[1].children) :
                LET tok == post.tokens[Len(pre.tokens) + 1].children[1].children[b]
                IN /\ tok.type \in {"paragraph", "block_text"}
                   /\ HoldsLine(tok.text, PySliceFrom(FollowingLine, ContinuationWidth))

\* the end of the consecutive definition groups from offset pos: each next
\* match starts where the one before it ends
RECURSIVE LastGroupEnd(_, _)
LastGroupEnd(s, pos) ==
    IF def_at(s, pos).ok THEN LastGroupEnd(s, def_at(s, pos).end) ELSE pos

\* C14: parse_def_list ends on every input with a position, and the position
\* it returns is the end of the last of the consecutive definition groups
\* that start at its match.
C14_DefListReturn ==
    rule = "def_list" =>
        /\ ret.kind = "int"
        /\ ret.v = LastGroupEnd(pre.src, mstart)

====
